---- MODULE Spec2Model ----
(***************************************************************************)
(* Model of src/index_documents.py: the document vectorization pipeline.   *)
(*                                                                         *)
(* A text is a sequence of one-character strings.  A behaviour follows one *)
(* of three entry points, chosen by Init:                                  *)
(*   - clean_chunk and enforce_max_length applied to a text (p_ variables),*)
(*   - the while loop of split_text_fixed, one iteration a step            *)
(*     (f_ variables),                                                     *)
(*   - process_document, one step per call it makes (the rest).            *)
(* conn.rollback() and conn.close() are taken not to raise.                *)
(***************************************************************************)
EXTENDS Integers, Sequences, FiniteSets, TLC

\* ---------------------------------------------------------------- bounds
MaxLen == 4          \* longest text given to the pure functions
MaxDocLen == 5       \* longest text the extraction adapter returns
MaxMaxChars == 3     \* largest max_chars given to enforce_max_length
MaxSize == 3         \* largest chunk_size given to split_text_fixed
MaxIter == 2          \* iterations past MaxLen followed in a split_text_fixed loop

\* ------------------------------------------------------------- constants
\* The source sets MAX_CHARS = 6000, chunk_size = 500 and overlap = 50.
\* The model keeps their order (overlap < chunk_size <= MAX_CHARS) at a
\* scale where texts of MaxDocLen characters exceed them.
MAX_CHARS == 2
DEFAULT_CHUNK_SIZE == 2
DEFAULT_OVERLAP == 1

\* ------------------------------------------------------------- alphabet
\* space, tab, newline: the whitespace the regular expressions name;
\* "." stands for the sentence punctuation [.!?]; "a" for any other char.
Whitespace == {" ", "\t", "\n"}
Punct == {".", "!", "?"}
Chars == {" ", "\t", "\n", ".", "a"}

Min(a, b) == IF a < b THEN a ELSE b
Max(a, b) == IF a > b THEN a ELSE b

TextsUpTo(n) == UNION {[1..k -> Chars] : k \in 0..n}

\* Python's text[a:b] (0-based, b exclusive, negative offsets count from
\* the end, offsets clamped to the text).
PySlice(text, a, b) ==
    LET n == Len(text)
        lo == IF a < 0 THEN Max(a + n, 0) ELSE Min(a, n)
        hi == IF b < 0 THEN Max(b + n, 0) ELSE Min(b, n)
    IN  SubSeq(text, lo + 1, hi)

RECURSIVE Concat(_)
Concat(parts) ==
    IF parts = <<>> THEN <<>> ELSE Head(parts) \o Concat(Tail(parts))

\* str.strip(): drop leading and trailing whitespace.
RECURSIVE LStrip(_)
LStrip(text) ==
    IF text # <<>> /\ Head(text) \in Whitespace THEN LStrip(Tail(text)) ELSE text

RECURSIVE RStrip(_)
RStrip(text) ==
    IF text # <<>> /\ text[Len(text)] \in Whitespace
    THEN RStrip(SubSeq(text, 1, Len(text) - 1)) ELSE text

Strip(text) == RStrip(LStrip(text))

\* re.sub(r'[cls]+', rep, text): every maximal run of characters of cls
\* becomes the single character rep.
RECURSIVE SubRuns(_, _, _, _)
SubRuns(text, cls, rep, i) ==
    IF i > Len(text) THEN <<>>
    ELSE (IF text[i] \in cls
          THEN (IF i > 1 /\ text[i - 1] \in cls THEN <<>> ELSE <<rep>>)
          ELSE <<text[i]>>) \o SubRuns(text, cls, rep, i + 1)

\* A clean_chunk whose second substitution writes a space for a newline run.
clean_chunk_newline_to_space(text) ==
    Strip(SubRuns(SubRuns(text, {" ", "\t"}, " ", 1), {"\n"}, " ", 1))

clean_chunk(text) ==
    Strip(SubRuns(SubRuns(text, {" ", "\t"}, " ", 1), {"\n"}, "\n", 1))

\* range(0, n, step) as the sequence of its values.
RECURSIVE Range0(_, _, _)
Range0(from, n, step) ==
    IF from >= n THEN <<>> ELSE <<from>> \o Range0(from + step, n, step)

\* An enforce_max_length whose slices are one character too long.
enforce_max_length_long(text, max_chars) ==
    LET starts == Range0(0, Len(text), max_chars)
    IN  [k \in 1..Len(starts) |-> PySlice(text, starts[k], starts[k] + max_chars + 1)]

\* An enforce_max_length whose range runs one offset past the text.
enforce_max_length_extra(text, max_chars) ==
    LET starts == Range0(0, Len(text) + 1, max_chars)
    IN  [k \in 1..Len(starts) |-> PySlice(text, starts[k], starts[k] + max_chars)]

enforce_max_length(text, max_chars) ==
    LET starts == Range0(0, Len(text), max_chars)
    IN  [k \in 1..Len(starts) |-> PySlice(text, starts[k], starts[k] + max_chars)]

\* ------------------------------------------------------ chunk strategies
\* The body of the while loop of split_text_fixed, piece by piece.
FixedChunk(text, start, chunk_size) == PySlice(text, start, start + chunk_size)
FixedKeep(chunk) == Strip(chunk) # <<>>
FixedAdvance(start, chunk_size, overlap) == start + chunk_size - overlap

\* split_text_fixed as a function of its arguments (for overlap < chunk_size,
\* where the loop ends).
RECURSIVE FixedFrom(_, _, _, _)
FixedFrom(text, chunk_size, overlap, start) ==
    IF ~(start < Len(text)) THEN <<>>
    ELSE LET chunk == FixedChunk(text, start, chunk_size)
         IN  (IF FixedKeep(chunk) THEN <<chunk>> ELSE <<>>)
             \o FixedFrom(text, chunk_size, overlap,
                          FixedAdvance(start, chunk_size, overlap))

split_text_fixed(text, chunk_size, overlap) == FixedFrom(text, chunk_size, overlap, 0)

\* Last index of the whitespace run that starts at i.
RECURSIVE RunEnd(_, _)
RunEnd(text, i) ==
    IF i < Len(text) /\ text[i + 1] \in Whitespace THEN RunEnd(text, i + 1) ELSE i

\* re.split(r'(?<=[.!?])\s+', text): s is the first index of the segment
\* being read, i the scan position.
RECURSIVE SentenceSplit(_, _, _)
SentenceSplit(text, s, i) ==
    IF i > Len(text) THEN <<SubSeq(text, s, Len(text))>>
    ELSE IF text[i] \in Whitespace /\ i > 1 /\ text[i - 1] \in Punct
         THEN <<SubSeq(text, s, i - 1)>>
              \o SentenceSplit(text, RunEnd(text, i) + 1, RunEnd(text, i) + 1)
         ELSE SentenceSplit(text, s, i + 1)

\* text.split('\n')
RECURSIVE NewlineSplit(_, _, _)
NewlineSplit(text, s, i) ==
    IF i > Len(text) THEN <<SubSeq(text, s, Len(text))>>
    ELSE IF text[i] = "\n"
         THEN <<SubSeq(text, s, i - 1)>> \o NewlineSplit(text, i + 1, i + 1)
         ELSE NewlineSplit(text, s, i + 1)

NonBlank(part) == Strip(part) # <<>>

split_text_sentence(text) == SelectSeq(SentenceSplit(text, 1, 1), NonBlank)

split_text_paragraph(text) == SelectSeq(NewlineSplit(text, 1, 1), NonBlank)

Strategies == {"fixed", "sentence", "paragraph"}

\* chunk_text for a recognised strategy (the other branch raises).
chunk_text(text, strategy) ==
    CASE strategy = "fixed" -> split_text_fixed(text, DEFAULT_CHUNK_SIZE, DEFAULT_OVERLAP)
      [] strategy = "sentence" -> split_text_sentence(text)
      [] strategy = "paragraph" -> split_text_paragraph(text)

\* ------------------------------------------------------------------ state
VARIABLES
    \* clean_chunk / enforce_max_length called on their own
    p_pc, p_text, p_max, p_out, p_norm,
    \* split_text_fixed called on its own
    f_pc, f_text, f_size, f_overlap, f_start, f_chunks, f_iter,
    \* process_document
    pc, file_exists, file_ext, strategy, text, chunks, ci, safe_chunks, si,
    chunk_counter, extract_calls, embed_log, insert_log, pending, visible,
    conn, txn, error, reported, retval

pvars == <<p_pc, p_text, p_max, p_out, p_norm>>
fvars == <<f_pc, f_text, f_size, f_overlap, f_start, f_chunks, f_iter>>
dvars == <<pc, file_exists, file_ext, strategy, text, chunks, ci, safe_chunks, si,
           chunk_counter, extract_calls, embed_log, insert_log, pending, visible,
           conn, txn, error, reported, retval>>
vars == <<pvars, fvars, dvars>>

Extensions == {".pdf", ".docx", ".txt"}
SupportedExtensions == {".pdf", ".docx"}

\* Values a call of process_document hands back: Python's None, or an int.
NotReturned == [type |-> "unset"]
PyNone == [type |-> "NoneType"]
PyInt(n) == [type |-> "int", value |-> n]
StrategyNames == Strategies \cup {"semantic"}

PureIdle ==
    /\ p_pc = "idle" /\ p_text = <<>> /\ p_max = 1 /\ p_out = <<>> /\ p_norm = <<>>

FixedIdle ==
    /\ f_pc = "idle" /\ f_text = <<>> /\ f_size = 1 /\ f_overlap = 0
    /\ f_start = 0 /\ f_chunks = <<>> /\ f_iter = 0

DocIdle ==
    /\ pc = "idle" /\ file_exists = FALSE /\ file_ext = ".pdf" /\ strategy = "fixed"
    /\ text = <<>> /\ chunks = <<>> /\ ci = 0 /\ safe_chunks = <<>> /\ si = 0
    /\ chunk_counter = 0 /\ extract_calls = 0 /\ embed_log = <<>> /\ insert_log = <<>>
    /\ pending = <<>> /\ visible = <<>> /\ conn = "none" /\ txn = "none"
    /\ error = "none" /\ reported = <<>> /\ retval = NotReturned

\* A caller about to apply clean_chunk or enforce_max_length to a text.
InitPure ==
    /\ p_pc = "ready"
    /\ p_text \in TextsUpTo(MaxLen)
    /\ p_max \in 1..MaxMaxChars
    /\ p_out = <<>> /\ p_norm = <<>>
    /\ FixedIdle /\ DocIdle

\* A caller about to run split_text_fixed(text, chunk_size, overlap).
InitFixed ==
    /\ f_pc = "call"
    /\ f_text \in TextsUpTo(MaxLen)
    /\ f_size \in 1..MaxSize
    /\ f_overlap \in 0..MaxSize
    /\ f_start = 0 /\ f_chunks = <<>> /\ f_iter = 0
    /\ PureIdle /\ DocIdle

\* main() about to call process_document(file_path, strategy); the store
\* holds no row of this document.
InitDoc ==
    /\ pc = "call"
    /\ file_exists \in BOOLEAN
    /\ file_ext \in Extensions
    /\ strategy \in StrategyNames
    /\ text = <<>> /\ chunks = <<>> /\ ci = 0 /\ safe_chunks = <<>> /\ si = 0
    /\ chunk_counter = 0 /\ extract_calls = 0 /\ embed_log = <<>> /\ insert_log = <<>>
    /\ pending = <<>> /\ visible = <<>> /\ conn = "none" /\ txn = "none"
    /\ error = "none" /\ reported = <<>> /\ retval = NotReturned
    /\ PureIdle /\ FixedIdle

Init == InitPure \/ InitFixed \/ InitDoc

\* ------------------------------------------- pure functions on their own
Enforce ==
    /\ p_pc = "ready"
    /\ p_out' = enforce_max_length(p_text, p_max)
    /\ p_pc' = "bounded"
    /\ UNCHANGED <<p_text, p_max, p_norm, fvars, dvars>>

\* clean_chunk applied to the text, then to its own result.
Clean ==
    /\ p_pc \in {"ready", "cleaned"}
    /\ Len(p_norm) < 2
    /\ p_norm' = Append(p_norm,
                        clean_chunk(IF p_norm = <<>> THEN p_text ELSE p_norm[Len(p_norm)]))
    /\ p_pc' = "cleaned"
    /\ UNCHANGED <<p_text, p_max, p_out, fvars, dvars>>

\* ------------------------------------------------- split_text_fixed loop
\* The loop runs IterCap iterations at most in the model; a loop that ends
\* needs at most MaxLen of them.
IterCap == MaxLen + MaxIter

FixedEnter ==
    /\ f_pc = "call"
    /\ f_chunks' = <<>>
    /\ f_start' = 0
    /\ f_pc' = "loop"
    /\ UNCHANGED <<f_text, f_size, f_overlap, f_iter, pvars, dvars>>

FixedIterate ==
    /\ f_pc = "loop"
    /\ f_start < Len(f_text)
    /\ f_iter < IterCap
    /\ LET chunk == FixedChunk(f_text, f_start, f_size)
       IN  f_chunks' = IF FixedKeep(chunk) THEN Append(f_chunks, chunk) ELSE f_chunks
    /\ f_start' = FixedAdvance(f_start, f_size, f_overlap)
    /\ f_iter' = f_iter + 1
    /\ UNCHANGED <<f_pc, f_text, f_size, f_overlap, pvars, dvars>>

FixedReturn ==
    /\ f_pc = "loop"
    /\ ~(f_start < Len(f_text))
    /\ f_pc' = "done"
    /\ UNCHANGED <<f_text, f_size, f_overlap, f_start, f_chunks, f_iter, pvars, dvars>>

\* ------------------------------------------------------ process_document
\* Every step of process_document leaves the other entry points alone.
Raise(kind) ==
    /\ error' = kind
    /\ pc' = "raised"

\* os.path.exists(file_path)
CheckExists ==
    /\ pc = "call"
    /\ IF file_exists
       THEN pc' = "extract" /\ UNCHANGED error
       ELSE Raise("FileNotFound")
    /\ UNCHANGED <<file_exists, file_ext, strategy, text, chunks, ci, safe_chunks, si,
                   chunk_counter, extract_calls, embed_log, insert_log, pending,
                   visible, conn, txn, reported, retval, pvars, fvars>>

\* An extract_text whose last branch reads the file as plain text instead
\* of raising.
ExtractText_any ==
    /\ pc = "extract"
    /\ extract_calls' = extract_calls + 1
    /\ \/ /\ \E t \in TextsUpTo(MaxDocLen) : text' = t
          /\ pc' = "chunk"
          /\ UNCHANGED error
       \/ /\ file_ext \in SupportedExtensions
          /\ Raise("ExtractionFailure")
          /\ UNCHANGED text
    /\ UNCHANGED <<file_exists, file_ext, strategy, chunks, ci, safe_chunks, si,
                   chunk_counter, embed_log, insert_log, pending,
                   visible, conn, txn, reported, retval, pvars, fvars>>

\* extract_text(file_path): dispatch on the extension; the PDF/DOCX reader
\* returns the document's text or raises.
ExtractText ==
    /\ pc = "extract"
    /\ extract_calls' = extract_calls + 1
    /\ \/ /\ file_ext \in SupportedExtensions
          /\ \E t \in TextsUpTo(MaxDocLen) : text' = t
          /\ pc' = "chunk"
          /\ UNCHANGED error
       \/ /\ file_ext \in SupportedExtensions
          /\ Raise("ExtractionFailure")
          /\ UNCHANGED text
       \/ /\ file_ext \notin SupportedExtensions
          /\ Raise("UnsupportedFormat")
          /\ UNCHANGED text
    /\ UNCHANGED <<file_exists, file_ext, strategy, chunks, ci, safe_chunks, si,
                   chunk_counter, embed_log, insert_log, pending,
                   visible, conn, txn, reported, retval, pvars, fvars>>

\* A chunk_text whose last branch falls back to the fixed strategy instead
\* of raising.
ChunkText_fallback ==
    /\ pc = "chunk"
    /\ chunks' = LET raw == chunk_text(text, IF strategy \in Strategies
                                             THEN strategy ELSE "fixed")
                 IN  [k \in 1..Len(raw) |-> clean_chunk(raw[k])]
    /\ pc' = "connect"
    /\ UNCHANGED <<file_exists, file_ext, strategy, text, ci, safe_chunks, si,
                   chunk_counter, extract_calls, embed_log, insert_log, pending,
                   visible, conn, txn, error, reported, retval, pvars, fvars>>

\* chunks = chunk_text(text, strategy); chunks = [clean_chunk(c) for c in chunks]
ChunkText ==
    /\ pc = "chunk"
    /\ IF strategy \in Strategies
       THEN /\ chunks' = LET raw == chunk_text(text, strategy)
                         IN  [k \in 1..Len(raw) |-> clean_chunk(raw[k])]
            /\ pc' = "connect"
            /\ UNCHANGED error
       ELSE /\ Raise("UnsupportedStrategy")
            /\ UNCHANGED chunks
    /\ UNCHANGED <<file_exists, file_ext, strategy, text, ci, safe_chunks, si,
                   chunk_counter, extract_calls, embed_log, insert_log, pending,
                   visible, conn, txn, reported, retval, pvars, fvars>>

\* conn = get_db_connection(); chunk_counter = 0.  The connection carries
\* the transaction of this run.
Connect ==
    /\ pc = "connect"
    /\ \/ /\ conn' = "open"
          /\ txn' = "Open"
          /\ chunk_counter' = 0
          /\ ci' = 1
          /\ pc' = "for_chunk"
          /\ UNCHANGED error
       \/ /\ Raise("ConnectFailure")
          /\ UNCHANGED <<conn, txn, chunk_counter, ci>>
    /\ UNCHANGED <<file_exists, file_ext, strategy, text, chunks, safe_chunks, si,
                   extract_calls, embed_log, insert_log, pending,
                   visible, reported, retval, pvars, fvars>>

\* for chunk in chunks: safe_chunks = enforce_max_length(chunk)
NextChunk ==
    /\ pc = "for_chunk"
    /\ IF ci <= Len(chunks)
       THEN LET safe == enforce_max_length(chunks[ci], MAX_CHARS)
            IN  /\ safe_chunks' = safe
                /\ si' = 1
                /\ ci' = ci + 1
                /\ pc' = IF safe = <<>> THEN "for_chunk" ELSE "embed"
       ELSE /\ pc' = "commit"
            /\ UNCHANGED <<safe_chunks, si, ci>>
    /\ UNCHANGED <<file_exists, file_ext, strategy, text, chunks,
                   chunk_counter, extract_calls, embed_log, insert_log, pending,
                   visible, conn, txn, error, reported, retval, pvars, fvars>>

\* embedding = generate_embedding(safe_chunk)
GenerateEmbedding ==
    /\ pc = "embed"
    /\ embed_log' = Append(embed_log, safe_chunks[si])
    /\ \/ pc' = "insert" /\ UNCHANGED error
       \/ error' = "EmbeddingFailure" /\ pc' = "except"
    /\ UNCHANGED <<file_exists, file_ext, strategy, text, chunks, ci, safe_chunks, si,
                   chunk_counter, extract_calls, insert_log, pending,
                   visible, conn, txn, reported, retval, pvars, fvars>>

\* A loop that counts once per chunk (chunk_counter += 1 after the inner
\* loop) instead of once per bounded sub-chunk.
InsertToDb_counts_chunks ==
    /\ pc = "insert"
    /\ insert_log' = Append(insert_log, safe_chunks[si])
    /\ \/ /\ pending' = Append(pending, safe_chunks[si])
          /\ IF si < Len(safe_chunks)
             THEN si' = si + 1 /\ pc' = "embed" /\ UNCHANGED chunk_counter
             ELSE si' = si /\ pc' = "for_chunk" /\ chunk_counter' = chunk_counter + 1
          /\ UNCHANGED error
       \/ /\ error' = "StorageFailure"
          /\ pc' = "except"
          /\ UNCHANGED <<pending, chunk_counter, si>>
    /\ UNCHANGED <<file_exists, file_ext, strategy, text, chunks, ci, safe_chunks,
                   extract_calls, embed_log,
                   visible, conn, txn, reported, retval, pvars, fvars>>

\* insert_to_db(conn, safe_chunk, embedding, filename, strategy); chunk_counter += 1
InsertToDb ==
    /\ pc = "insert"
    /\ insert_log' = Append(insert_log, safe_chunks[si])
    /\ \/ /\ pending' = Append(pending, safe_chunks[si])
          /\ chunk_counter' = chunk_counter + 1
          /\ IF si < Len(safe_chunks)
             THEN si' = si + 1 /\ pc' = "embed"
             ELSE si' = si /\ pc' = "for_chunk"
          /\ UNCHANGED error
       \/ /\ error' = "StorageFailure"
          /\ pc' = "except"
          /\ UNCHANGED <<pending, chunk_counter, si>>
    /\ UNCHANGED <<file_exists, file_ext, strategy, text, chunks, ci, safe_chunks,
                   extract_calls, embed_log,
                   visible, conn, txn, reported, retval, pvars, fvars>>

\* conn.commit(), then the success message with chunk_counter
Commit ==
    /\ pc = "commit"
    /\ \/ /\ visible' = visible \o pending
          /\ pending' = <<>>
          /\ txn' = "Committed"
          /\ reported' = Append(reported, chunk_counter)
          /\ pc' = "finally"
          /\ UNCHANGED error
       \/ /\ error' = "StorageFailure"
          /\ pc' = "except"
          /\ UNCHANGED <<visible, pending, txn, reported>>
    /\ UNCHANGED <<file_exists, file_ext, strategy, text, chunks, ci, safe_chunks, si,
                   chunk_counter, extract_calls, embed_log, insert_log,
                   conn, retval, pvars, fvars>>

\* An except clause that commits what was written instead of rolling back.
Rollback_commits ==
    /\ pc = "except"
    /\ visible' = visible \o pending
    /\ pending' = <<>>
    /\ txn' = "Committed"
    /\ pc' = "finally"
    /\ UNCHANGED <<file_exists, file_ext, strategy, text, chunks, ci, safe_chunks, si,
                   chunk_counter, extract_calls, embed_log, insert_log,
                   conn, error, reported, retval, pvars, fvars>>

\* except Exception as e: conn.rollback(); raise e
Rollback ==
    /\ pc = "except"
    /\ pending' = <<>>
    /\ txn' = "RolledBack"
    /\ pc' = "finally"
    /\ UNCHANGED <<file_exists, file_ext, strategy, text, chunks, ci, safe_chunks, si,
                   chunk_counter, extract_calls, embed_log, insert_log,
                   visible, conn, error, reported, retval, pvars, fvars>>

\* conn.close() at the end of the try block instead of in a finally clause:
\* skipped when an exception is on its way out.
Close_not_finally ==
    /\ pc = "finally"
    /\ conn' = IF error = "none" THEN "closed" ELSE conn
    /\ IF error = "none"
       THEN pc' = "returned" /\ retval' = PyNone
       ELSE pc' = "raised" /\ UNCHANGED retval
    /\ UNCHANGED <<file_exists, file_ext, strategy, text, chunks, ci, safe_chunks, si,
                   chunk_counter, extract_calls, embed_log, insert_log, pending,
                   visible, txn, error, reported, pvars, fvars>>

\* finally: conn.close(); then the function returns (no return statement:
\* the value is None) or the exception leaves it.
Close ==
    /\ pc = "finally"
    /\ conn' = "closed"
    /\ IF error = "none"
       THEN pc' = "returned" /\ retval' = PyNone
       ELSE pc' = "raised" /\ UNCHANGED retval
    /\ UNCHANGED <<file_exists, file_ext, strategy, text, chunks, ci, safe_chunks, si,
                   chunk_counter, extract_calls, embed_log, insert_log, pending,
                   visible, txn, error, reported, pvars, fvars>>

Next ==
    \/ Enforce \/ Clean
    \/ FixedEnter \/ FixedIterate \/ FixedReturn
    \/ CheckExists \/ ExtractText \/ ChunkText \/ Connect \/ NextChunk
    \/ GenerateEmbedding \/ InsertToDb \/ Commit \/ Rollback \/ Close

Spec == Init /\ [][Next]_vars

\* ------------------------------------------------------------ properties
Terminal == pc \in {"returned", "raised"}

\* The bounded sub-chunks of the whole document, in processing order.
AllSubChunks ==
    Concat([k \in 1..Len(chunks) |-> enforce_max_length(chunks[k], MAX_CHARS)])

\* C1: when the embedding call or the storage write of a sub-chunk fails,
\* nothing more is embedded or written, the transaction is rolled back with
\* no row of the document visible (the rows inserted before the failure
\* included), and the failure reaches the caller; rows are visible only
\* once every sub-chunk has been embedded and stored.
C1_FailureRollsBack ==
    /\ [](error \in {"EmbeddingFailure", "StorageFailure"}
            => /\ visible = <<>>
               /\ pc # "returned"
               /\ Terminal => (pc = "raised" /\ txn = "RolledBack" /\ pending = <<>>))
    /\ [](visible # <<>>
            => /\ error = "none"
               /\ visible = AllSubChunks
               /\ embed_log = AllSubChunks
               /\ insert_log = AllSubChunks)
    /\ [][error # "none" => (embed_log' = embed_log /\ insert_log' = insert_log)]_vars

C1_Witness ==
    /\ pc = "raised"
    /\ error = "EmbeddingFailure"
    /\ Len(embed_log) = 2
    /\ Len(insert_log) = 1
    /\ Len(AllSubChunks) = 3
    /\ txn = "RolledBack"

\* C2 as stated: a run in which every call succeeds commits and returns to
\* its caller the number of bounded sub-chunks embedded.
C2_ReturnsCount ==
    pc = "returned" => (txn = "Committed" /\ retval = PyInt(Len(embed_log)))

\* C2 as amended: a run in which every call succeeds commits, reports in
\* its success message the number of bounded sub-chunks embedded (one row
\* per sub-chunk, so possibly more than the raw chunks), and returns None.
C2_ReportsCount ==
    pc = "returned"
        => /\ txn = "Committed"
           /\ reported = <<Len(embed_log)>>
           /\ embed_log = AllSubChunks
           /\ visible = AllSubChunks
           /\ Len(visible) >= Len(chunks)
           /\ retval = PyNone

C2_Witness ==
    /\ pc = "returned"
    /\ chunks # <<>>
    /\ Len(visible) > Len(chunks)
    /\ reported = <<Len(visible)>>

\* C3: the elements of enforce_max_length(t, max_chars), concatenated in
\* order, are t, and none is longer than max_chars; so no text handed to
\* generate_embedding is longer than MAX_CHARS.
C3_BoundedAndLossless ==
    /\ p_pc = "bounded"
         => /\ Concat(p_out) = p_text
            /\ \A k \in 1..Len(p_out) : Len(p_out[k]) <= p_max
    /\ \A k \in 1..Len(embed_log) : Len(embed_log[k]) <= MAX_CHARS
    /\ pc = "embed" => Concat(safe_chunks) = chunks[ci - 1]

C3_Witness ==
    /\ p_pc = "bounded"
    /\ Len(p_text) > p_max
    /\ Len(p_out) >= 2
    /\ Len(p_out[Len(p_out)]) < p_max

\* C4 as stated: enforce_max_length returns at least one element for every
\* chunk, the empty string included, and exactly the chunk when it is no
\* longer than max_chars.
C4_AtLeastOne ==
    p_pc = "bounded"
        => /\ Len(p_out) >= 1
           /\ Len(p_text) <= p_max => p_out = <<p_text>>

\* C4 as amended: enforce_max_length returns at least one element for every
\* non-empty chunk, exactly the chunk when it is non-empty and no longer
\* than max_chars, and no element at all for the empty string.
C4_AtLeastOneNonEmpty ==
    p_pc = "bounded"
        => /\ p_text # <<>> => Len(p_out) >= 1
           /\ (p_text # <<>> /\ Len(p_text) <= p_max) => p_out = <<p_text>>
           /\ p_text = <<>> => p_out = <<>>

C4_Witness ==
    /\ p_pc = "bounded"
    /\ Len(p_text) = p_max
    /\ p_out = <<p_text>>

\* C5 as stated: called on an existing document with an unknown strategy,
\* process_document fails with the unsupported-strategy error before
\* extract_text is invoked.
C5_StrategyBeforeExtraction ==
    error = "UnsupportedStrategy" => extract_calls = 0

\* C5 as amended: called on an existing .pdf or .docx document whose text
\* extraction succeeds, with an unknown strategy, process_document fails
\* with the unsupported-strategy error after extract_text has been invoked
\* and before a connection is opened or an embedding requested.
C5_StrategyAfterExtraction ==
    /\ (file_exists /\ strategy \notin Strategies /\ Terminal
          /\ file_ext \in SupportedExtensions /\ error # "ExtractionFailure")
         => (pc = "raised" /\ error = "UnsupportedStrategy")
    /\ error = "UnsupportedStrategy"
         => /\ strategy \notin Strategies
            /\ extract_calls = 1
            /\ conn = "none" /\ txn = "none"
            /\ embed_log = <<>> /\ insert_log = <<>>

C5_Witness ==
    /\ pc = "raised"
    /\ error = "UnsupportedStrategy"
    /\ extract_calls = 1
    /\ text # <<>>

\* C6: called on an existing file whose extension is neither .pdf nor
\* .docx, process_document fails with the unsupported-format error, and in
\* that run no embedding is requested and no connection or transaction
\* is opened.
C6_UnsupportedFormat ==
    (file_exists /\ file_ext \notin SupportedExtensions)
        => /\ embed_log = <<>> /\ insert_log = <<>>
           /\ conn = "none" /\ txn = "none"
           /\ pc # "returned"
           /\ pc = "raised" => error = "UnsupportedFormat"

C6_Witness ==
    /\ pc = "raised"
    /\ error = "UnsupportedFormat"
    /\ file_ext = ".txt"
    /\ extract_calls = 1

\* C7: once the connection is open, every way out of process_document
\* leaves the transaction in one terminal state (Committed after a return,
\* RolledBack after a failure) with the connection closed; a terminal
\* state is never left and no insert follows it.
C7_OneTerminalState ==
    /\ []((conn # "none" /\ Terminal)
            => /\ conn = "closed"
               /\ pc = "returned" => txn = "Committed"
               /\ pc = "raised" => txn = "RolledBack")
    /\ [][(txn = "Committed" \/ txn = "RolledBack")
            => (txn' = txn /\ insert_log' = insert_log /\ visible' = visible)]_vars

C7_Witness ==
    /\ pc = "raised"
    /\ conn = "closed"
    /\ txn = "RolledBack"
    /\ ci > Len(chunks)
    /\ insert_log # <<>>
    /\ insert_log = embed_log

\* C8: every text handed to generate_embedding and insert_to_db is
\* non-empty and not whitespace-only.
C8_NoBlankSubChunk ==
    /\ \A k \in 1..Len(embed_log) : Strip(embed_log[k]) # <<>>
    /\ \A k \in 1..Len(insert_log) : Strip(insert_log[k]) # <<>>

\* C9: clean_chunk(clean_chunk(x)) = clean_chunk(x), clean_chunk(x) is no
\* longer than x, and clean_chunk of the empty string is the empty string.
C9_CleanIdempotent ==
    /\ Len(p_norm) >= 1
         => /\ Len(p_norm[1]) <= Len(p_text)
            /\ p_text = <<>> => p_norm[1] = <<>>
    /\ Len(p_norm) = 2 => p_norm[2] = p_norm[1]

C9_Witness ==
    /\ Len(p_norm) = 2
    /\ p_norm[1] # p_text
    /\ Len(p_norm[1]) >= 3

\* C10: split_text_fixed runs its loop only for overlap < chunk_size (a
\* configuration with overlap >= chunk_size is rejected), and then the
\* cursor advances by chunk_size - overlap on every iteration and the loop
\* ends.
C10_OverlapRejected ==
    f_pc \in {"loop", "done"}
        => /\ f_overlap < f_size
           /\ f_start = f_iter * (f_size - f_overlap)
           /\ f_iter <= Len(f_text)

====
